---------------------------- MODULE Spec2Model ----------------------------
(***************************************************************************)
(* A model of nv-rs, the Rust wrapper `NvList` around FreeBSD's libnv.     *)
(*                                                                         *)
(* The wrapper (src/src/nvlist.rs) holds `list: Option<*mut nvlist>` and   *)
(* forwards every call to a libnv function declared in its `extern "C"`    *)
(* block.  The wrapper's operations are modelled from their Rust source.   *)
(* The libnv functions themselves are only declared in the repository;     *)
(* their behaviour is modelled from the specification (section 4.2) and is *)
(* kept in one layer of its own, below.                                    *)
(*                                                                         *)
(* State: the client's NvList variables (`vars`), the C heap of nvlist     *)
(* objects (`heap`), and a log of the last call made (`last`).             *)
(***************************************************************************)
EXTENDS Integers, Sequences, FiniteSets, TLC

VARIABLES vars, heap, last

allvars == <<vars, heap, last>>

(***************************************************************************)
(* Bounds of the model.                                                    *)
(***************************************************************************)
\* Number of cells of the C heap (nvlist objects that can be live at once).
MaxHandles == 4
\* Entries one nvlist may hold.
MaxEntries == 2

(***************************************************************************)
(* Input sets the calls draw their arguments from.                         *)
(***************************************************************************)
\* The client's NvList variables, which calls may target and assign.
Slots == {"a", "b"}

\* A temporary NvList::default() passed by reference as a value.
Temp == "tmp"

\* The names of the specification's example, "Key" and "key".
KeyUpper == <<"K", "e", "y">>

KeyLower == <<"k", "e", "y">>

Names == {KeyUpper, KeyLower}

Bools == {TRUE, FALSE}

Numbers == {42}

Strings == { <<"h", "i">> }

\* What a read of released memory may yield besides the bytes once stored.
Garbage == <<"?">>

BoolSlices == { <<TRUE, FALSE>> }

NumberSlices == { <<1, 2>> }

StringSlices == { << <<"H", "i">> >> }

ErrorCodes == {0, 22}

\* The types free_type is called with.
FreeTypes == {"Null", "Bool", "NvList", "NumberArray"}

(***************************************************************************)
(* Option values of the Rust side.                                         *)
(***************************************************************************)
None == <<"None">>

Some(x) == <<"Some", x>>

IsSome(o) == o[1] = "Some"

Unwrap(o) == o[2]

\* The null pointer; live nvlist objects have the addresses 1..MaxHandles.
NULL == 0

Handles == 1..MaxHandles

(***************************************************************************)
(* common.rs: NvType and its `as i32` conversion; NvFlag likewise.         *)
(***************************************************************************)
NvTypes == {"None", "Null", "Bool", "Number", "String", "NvList", "Descriptor",
            "Binary", "BoolArray", "NumberArray", "StringArray", "NvListArray",
            "DescriptorArray"}

NvType_as_i32(ty) ==
    CASE ty = "None" -> 0
      [] ty = "Null" -> 1
      [] ty = "Bool" -> 2
      [] ty = "Number" -> 3
      [] ty = "String" -> 4
      [] ty = "NvList" -> 5
      [] ty = "Descriptor" -> 6
      [] ty = "Binary" -> 7
      [] ty = "BoolArray" -> 8
      [] ty = "NumberArray" -> 9
      [] ty = "StringArray" -> 10
      [] ty = "NvListArray" -> 11
      [] ty = "DescriptorArray" -> 12

NvFlags == {"None", "IgnoreCase", "NoUnique", "All"}

NvFlag_as_i32(f) ==
    CASE f = "None" -> 0
      [] f = "IgnoreCase" -> 1
      [] f = "NoUnique" -> 2
      [] f = "All" -> 3

\* A variant that looks at the two flag bits only.
NvFlag_from_i32_masked(i) ==
    CASE i % 4 = 0 -> <<"Ok", "None">>
      [] i % 4 = 1 -> <<"Ok", "IgnoreCase">>
      [] i % 4 = 2 -> <<"Ok", "NoUnique">>
      [] i % 4 = 3 -> <<"Ok", "All">>

\* NvFlag::from_i32: Ok(flag) for 0..3, Err(ConstructionErr) otherwise.
NvFlag_from_i32(i) ==
    CASE i = 0 -> <<"Ok", "None">>
      [] i = 1 -> <<"Ok", "IgnoreCase">>
      [] i = 2 -> <<"Ok", "NoUnique">>
      [] i = 3 -> <<"Ok", "All">>
      [] OTHER -> <<"Err", "ConstructionErr">>

\* The NUL byte, which ends a C string.
NUL == "\\0"

\* CString::new(s): Err when s holds an interior NUL, else the bytes of s, which
\* C reads up to the terminator appended to them.
CString_new(s) ==
    IF \E i \in 1..Len(s) : s[i] = NUL THEN <<"Err", "NulError">> ELSE <<"Ok", s>>

\* .expect("Could not decode string") on the Ok side.
Expect(r) == r[2]

(***************************************************************************)
(* libnv.  An nvlist object is a record                                    *)
(*   [live: TRUE, flags: 0..3, error: Int, entries: Seq(pair)]             *)
(* and a pair is [name, type, value]; `type` is the i32 of NvType.  The    *)
(* value of an NvList pair is the address of the child object the parent   *)
(* owns, the value of an NvListArray pair a sequence of such addresses.    *)
(* A heap cell that holds no object is FreeCell.                           *)
(***************************************************************************)
FreeCell == [live |-> FALSE, flags |-> 0, error |-> 0, entries |-> <<>>]

NewList(flags) == [live |-> TRUE, flags |-> flags, error |-> 0, entries |-> <<>>]

\* errno values libnv reports.
EEXIST == 17

ENOMEM == 12

NV_FLAG_IGNORE_CASE(flags) == flags % 2 = 1

NV_FLAG_NO_UNIQUE(flags) == (flags \div 2) % 2 = 1

tolower(c) ==
    CASE c = "K" -> "k"
      [] c = "E" -> "e"
      [] c = "Y" -> "y"
      [] c = "X" -> "x"
      [] OTHER -> c

strcmp_eq(s, t) == s = t

strcasecmp_eq(s, t) ==
    /\ Len(s) = Len(t)
    /\ \A i \in 1..Len(s) : tolower(s[i]) = tolower(t[i])

\* Whether a pair's name is the name asked for, under the list's case policy.
NameMatches(flags, pname, name) ==
    IF NV_FLAG_IGNORE_CASE(flags) THEN strcasecmp_eq(pname, name)
                                  ELSE strcmp_eq(pname, name)

\* The linear scan: position of the first pair of the name (and of the type,
\* unless type is 0), or 0 when there is none.
nvlist_find(l, type, name) ==
    LET hits == { i \in 1..Len(l.entries) :
                    /\ type = 0 \/ l.entries[i].type = type
                    /\ NameMatches(l.flags, l.entries[i].name, name) }
    IN IF hits = {} THEN 0 ELSE CHOOSE i \in hits : \A j \in hits : i <= j

nvlist_exists(l, name) == nvlist_find(l, 0, name) # 0

nvlist_exists_type(l, name, type) == nvlist_find(l, type, name) # 0

\* nvlist_get_<type>: the value of the first pair of the name and type.
nvlist_get(l, type, name) == l.entries[nvlist_find(l, type, name)].value

nvlist_empty(l) == Len(l.entries) = 0

nvlist_flags(l) == l.flags

nvlist_error(l) == l.error

\* The size estimate of the encoded form: per pair a tag byte, the name with
\* its terminator, and a payload word.
nvlist_size(l) ==
    LET RECURSIVE Sum(_)
        Sum(i) == IF i = 0 THEN 0
                  ELSE Sum(i - 1) + 1 + (Len(l.entries[i].name) + 1) + 8
    IN Sum(Len(l.entries))

\* Addresses of the heap that hold no object.
FreeHandles(hp) == { h \in Handles : ~hp[h].live }

\* malloc: the lowest free address.
Fresh(hp) == CHOOSE h \in FreeHandles(hp) : \A g \in FreeHandles(hp) : h <= g

\* nvlist_create(flags): a new empty object; returns the heap and the address.
nvlist_create(hp, flags) ==
    LET h == Fresh(hp)
    IN [hp |-> [hp EXCEPT ![h] = NewList(flags)], h |-> h]

nvlist_set_error(hp, h, error) == [hp EXCEPT ![h].error = error]

NV_TYPE_NVLIST == NvType_as_i32("NvList")

NV_TYPE_NVLIST_ARRAY == NvType_as_i32("NvListArray")

\* The child objects a list owns directly.
Children(l) ==
    UNION { IF l.entries[i].type = NV_TYPE_NVLIST THEN {l.entries[i].value}
            ELSE IF l.entries[i].type = NV_TYPE_NVLIST_ARRAY
                 THEN { l.entries[i].value[k] : k \in 1..Len(l.entries[i].value) }
                 ELSE {} : i \in 1..Len(l.entries) }

\* The object at h with everything below it.
RECURSIVE Subtree(_, _)
Subtree(hp, h) == {h} \cup UNION { Subtree(hp, c) : c \in Children(hp[h]) }

\* nvlist_clone(src): a deep copy, every child cloned in turn; returns the heap
\* and the address of the copy.
RECURSIVE nvlist_clone(_, _)
RECURSIVE ClonePairs(_, _, _, _)
RECURSIVE CloneArray(_, _, _, _)
nvlist_clone(hp, src) ==
    LET h == Fresh(hp)
        hp1 == [hp EXCEPT ![h] = [hp[src] EXCEPT !.entries = <<>>]]
        r == ClonePairs(hp1, hp[src].entries, 1, <<>>)
    IN [hp |-> [r.hp EXCEPT ![h].entries = r.out], h |-> h]

ClonePairs(hp, pairs, i, out) ==
    IF i > Len(pairs) THEN [hp |-> hp, out |-> out]
    ELSE LET p == pairs[i]
         IN IF p.type = NV_TYPE_NVLIST
            THEN LET c == nvlist_clone(hp, p.value)
                 IN ClonePairs(c.hp, pairs, i + 1, Append(out, [p EXCEPT !.value = c.h]))
            ELSE IF p.type = NV_TYPE_NVLIST_ARRAY
            THEN LET a == CloneArray(hp, p.value, 1, <<>>)
                 IN ClonePairs(a.hp, pairs, i + 1, Append(out, [p EXCEPT !.value = a.out]))
            ELSE ClonePairs(hp, pairs, i + 1, Append(out, p))

CloneArray(hp, arr, k, out) ==
    IF k > Len(arr) THEN [hp |-> hp, out |-> out]
    ELSE LET c == nvlist_clone(hp, arr[k])
         IN CloneArray(c.hp, arr, k + 1, Append(out, c.h))

\* nvlist_destroy(h): releases the object and everything below it.
nvlist_destroy(hp, h) ==
    [g \in Handles |-> IF g \in Subtree(hp, h) THEN FreeCell ELSE hp[g]]

\* The insertion every nvlist_add_<type> ends in.  Nothing happens on a list
\* in error; a name already there, on a list without NV_FLAG_NO_UNIQUE, sets
\* the error and inserts nothing; otherwise the pair goes to the end.
nvlist_add_pair(hp, h, name, type, value) ==
    LET l == hp[h]
    IN IF l.error # 0 THEN hp
       ELSE IF ~NV_FLAG_NO_UNIQUE(l.flags) /\ nvlist_exists(l, name)
            THEN [hp EXCEPT ![h].error = EEXIST]
            ELSE [hp EXCEPT ![h].entries =
                     Append(@, [name |-> name, type |-> type, value |-> value])]

\* Whether an insertion would store the pair.
WouldInsert(l, name) ==
    /\ l.error = 0
    /\ NV_FLAG_NO_UNIQUE(l.flags) \/ ~nvlist_exists(l, name)

\* nvlist_add_nvlist(h, name, other): stores a clone of other.
nvlist_add_nvlist(hp, h, name, other) ==
    IF WouldInsert(hp[h], name)
    THEN LET c == nvlist_clone(hp, other)
         IN nvlist_add_pair(c.hp, h, name, NV_TYPE_NVLIST, c.h)
    ELSE nvlist_add_pair(hp, h, name, NV_TYPE_NVLIST, NULL)

\* nvlist_add_nvlist_array(h, name, others): stores a clone of each.
nvlist_add_nvlist_array(hp, h, name, others) ==
    IF WouldInsert(hp[h], name)
    THEN LET a == CloneArray(hp, others, 1, <<>>)
         IN nvlist_add_pair(a.hp, h, name, NV_TYPE_NVLIST_ARRAY, a.out)
    ELSE nvlist_add_pair(hp, h, name, NV_TYPE_NVLIST_ARRAY, <<>>)

\* Removal of the pair at position i, with the children it owns.
RemoveAt(hp, h, i) ==
    LET l == hp[h]
        p == l.entries[i]
        gone == IF p.type = NV_TYPE_NVLIST THEN Subtree(hp, p.value)
                ELSE IF p.type = NV_TYPE_NVLIST_ARRAY
                     THEN UNION { Subtree(hp, p.value[k]) : k \in 1..Len(p.value) }
                     ELSE {}
        rest == [j \in 1..(Len(l.entries) - 1) |->
                    IF j < i THEN l.entries[j] ELSE l.entries[j + 1]]
    IN [g \in Handles |->
          IF g \in gone THEN FreeCell
          ELSE IF g = h THEN [l EXCEPT !.entries = rest]
          ELSE hp[g]]

\* nvlist_free_type(h, name, type): removes the first pair of the name and
\* type (of any type when type is 0); nothing when there is none.
nvlist_free_type(hp, h, name, type) ==
    LET i == nvlist_find(hp[h], type, name)
    IN IF i = 0 THEN hp ELSE RemoveAt(hp, h, i)

nvlist_free(hp, h, name) == nvlist_free_type(hp, h, name, 0)

(***************************************************************************)
(* The wrapper: queries.  `v` names an NvList variable of the client;      *)
(* vars[v] is its `list` field, None or Some(address).                     *)
(***************************************************************************)
Ptr(v) == Unwrap(vars[v])

Obj(v) == heap[Ptr(v)]

Logged(op, v, name) == [op |-> op, slot |-> v]

is_empty(v) == IF IsSome(vars[v]) THEN nvlist_empty(Obj(v)) ELSE TRUE

flags(v) ==
    IF IsSome(vars[v]) THEN Expect(NvFlag_from_i32(nvlist_flags(Obj(v)))) ELSE "None"

error(v) == IF IsSome(vars[v]) THEN nvlist_error(Obj(v)) ELSE ENOMEM

\* The value set_error returns.
set_error_ret(v, code) ==
    IF IsSome(vars[v]) THEN <<"Ok">> ELSE <<"Err", "ErrorNotSet", code>>

len(v) == IF IsSome(vars[v]) THEN nvlist_size(Obj(v)) ELSE 0

\* A variant that calls nvlist_exists_null.
exists_null_only(v, name) ==
    IF IsSome(vars[v])
    THEN nvlist_exists_type(Obj(v), Expect(CString_new(name)), NvType_as_i32("Null"))
    ELSE FALSE

exists(v, name) ==
    LET c_name == Expect(CString_new(name))
    IN IF IsSome(vars[v]) THEN nvlist_exists(Obj(v), c_name) ELSE FALSE

exists_type(v, name, ty) ==
    LET c_name == Expect(CString_new(name))
    IN IF IsSome(vars[v]) THEN nvlist_exists_type(Obj(v), c_name, NvType_as_i32(ty))
       ELSE FALSE

\* The shape the getters share: Some(value of the first pair of the name and
\* type) when nvlist_exists_<type> says there is one, else None.
GetTyped(v, name, ty) ==
    LET c_name == Expect(CString_new(name))
    IN IF IsSome(vars[v])
       THEN IF nvlist_exists_type(Obj(v), c_name, NvType_as_i32(ty))
            THEN Some(nvlist_get(Obj(v), NvType_as_i32(ty), c_name))
            ELSE None
       ELSE None

\* A variant that returns what nvlist_exists_bool says, not the value.
get_bool_exists(v, name) ==
    IF IsSome(vars[v])
       /\ nvlist_exists_type(Obj(v), Expect(CString_new(name)), NvType_as_i32("Bool"))
    THEN Some(TRUE)
    ELSE None

get_bool(v, name) == GetTyped(v, name, "Bool")

\* A variant that asks nvlist_exists, not nvlist_exists_number, before reading.
get_number_untyped(v, name) == GetTyped(v, name, "None")

get_number(v, name) == GetTyped(v, name, "Number")

\* The String is built over the bytes libnv returns, up to strlen of them.
get_string(v, name) == GetTyped(v, name, "String")

get_bool_slice(v, name) == GetTyped(v, name, "BoolArray")

get_number_slice(v, name) == GetTyped(v, name, "NumberArray")

get_string_vec(v, name) == GetTyped(v, name, "StringArray")

\* What get_nvlist finds before it clones: Some(address of the stored child).
get_nvlist_found(v, name) == GetTyped(v, name, "NvList")

\* What get_nvlist_vec finds before it clones each: Some(addresses stored).
get_nvlist_vec_found(v, name) == GetTyped(v, name, "NvListArray")

(***************************************************************************)
(* The wrapper: operations that change the state.  Each is the whole Rust  *)
(* method; each logs itself in `last`.                                     *)
(***************************************************************************)
\* Drop for NvList: nvlist_destroy when there is a list.
drop(hp, o) == IF IsSome(o) THEN nvlist_destroy(hp, Unwrap(o)) ELSE hp

\* v = NvList::new(flags).unwrap(); the value v held is dropped.
new(v, f) ==
    LET c == nvlist_create(heap, NvFlag_as_i32(f))
    IN /\ c.h # NULL
       /\ heap' = drop(c.hp, vars[v])
       /\ vars' = [vars EXCEPT ![v] = Some(c.h)]
       /\ last' = Logged("new", v, <<>>)

\* v = NvList::default(); the value v held is dropped.
default(v) ==
    /\ heap' = drop(heap, vars[v])
    /\ vars' = [vars EXCEPT ![v] = None]
    /\ last' = Logged("default", v, <<>>)

\* A variant that passes 0 to libnv, whatever the code.
set_error_zero(v, code) ==
    /\ heap' = IF IsSome(vars[v]) THEN nvlist_set_error(heap, Ptr(v), 0) ELSE heap
    /\ UNCHANGED vars
    /\ last' = Logged("set_error", v, <<>>)

set_error(v, code) ==
    /\ heap' = IF IsSome(vars[v]) THEN nvlist_set_error(heap, Ptr(v), code) ELSE heap
    /\ UNCHANGED vars
    /\ last' = Logged("set_error", v, <<>>)

\* The shape of add_null, add_bool, add_number, add_string and the bool and
\* number slices: with a list, the C name is made and the pair handed to libnv.
AddValue(v, name, ty, value) ==
    IF IsSome(vars[v])
    THEN LET c_name == Expect(CString_new(name))
         IN nvlist_add_pair(heap, Ptr(v), c_name, NvType_as_i32(ty), value)
    ELSE heap

add_null(v, name) ==
    /\ heap' = AddValue(v, name, "Null", <<>>)
    /\ UNCHANGED vars
    /\ last' = Logged("add_null", v, name)

add_bool(v, name, value) ==
    /\ heap' = AddValue(v, name, "Bool", value)
    /\ UNCHANGED vars
    /\ last' = Logged("add_bool", v, name)

\* A variant that gives an invalid container a list on first use.
add_number_lazy(v, name, value) ==
    LET c == nvlist_create(heap, 0)
        lazy == ~IsSome(vars[v]) /\ FreeHandles(heap) # {}
    IN /\ heap' = IF lazy
                  THEN nvlist_add_pair(c.hp, c.h, Expect(CString_new(name)),
                                       NvType_as_i32("Number"), value)
                  ELSE AddValue(v, name, "Number", value)
       /\ vars' = IF lazy THEN [vars EXCEPT ![v] = Some(c.h)] ELSE vars
       /\ last' = Logged("add_number", v, name)

\* A variant that replaces the entry of the name instead of refusing.
add_number_upsert(v, name, value) ==
    /\ heap' = IF IsSome(vars[v])
               THEN nvlist_add_pair(nvlist_free(heap, Ptr(v), Expect(CString_new(name))),
                                    Ptr(v), Expect(CString_new(name)),
                                    NvType_as_i32("Number"), value)
               ELSE heap
    /\ UNCHANGED vars
    /\ last' = Logged("add_number", v, name)

add_number(v, name, value) ==
    /\ heap' = AddValue(v, name, "Number", value)
    /\ UNCHANGED vars
    /\ last' = Logged("add_number", v, name)

add_string(v, name, value) ==
    /\ heap' = AddValue(v, name, "String", Expect(CString_new(value)))
    /\ UNCHANGED vars
    /\ last' = Logged("add_string", v, name)

add_bool_slice(v, name, value) ==
    /\ heap' = AddValue(v, name, "BoolArray", value)
    /\ UNCHANGED vars
    /\ last' = Logged("add_bool_slice", v, name)

\* A variant that passes a length one short of the slice's.
add_number_slice_short(v, name, value) ==
    /\ heap' = AddValue(v, name, "NumberArray", SubSeq(value, 1, Len(value) - 1))
    /\ UNCHANGED vars
    /\ last' = Logged("add_number_slice", v, name)

add_number_slice(v, name, value) ==
    /\ heap' = AddValue(v, name, "NumberArray", value)
    /\ UNCHANGED vars
    /\ last' = Logged("add_number_slice", v, name)

\* Each CString made inside the closure is dropped as the closure returns, so
\* the pointers collected point at released memory: what libnv copies from
\* each is the string or whatever the memory holds by then.
add_string_slice(v, name, value) ==
    /\ \E stored \in [1..Len(value) -> { value[i] : i \in 1..Len(value) }
                                            \cup {Garbage}] :
          /\ \A i \in 1..Len(value) : stored[i] \in {value[i], Garbage}
          /\ heap' = AddValue(v, name, "StringArray", stored)
    /\ UNCHANGED vars
    /\ last' = Logged("add_string_slice", v, name)

\* A variant that creates the substitute list with no flags.
add_nvlist_noflags(v, name, w) ==
    LET c_name == Expect(CString_new(name))
    IN /\ heap' =
            IF IsSome(vars[v]) /\ IsSome(vars[w]) /\ Ptr(w) # NULL
            THEN nvlist_add_nvlist(heap, Ptr(v), c_name, Ptr(w))
            ELSE IF IsSome(vars[v])
            THEN LET c == nvlist_create(heap, 0)
                 IN nvlist_add_nvlist(c.hp, Ptr(v), c_name, c.h)
            ELSE heap
       /\ UNCHANGED vars
       /\ last' = Logged("add_nvlist", v, name)

\* add_nvlist(name, &w).  With both lists there, libnv stores a clone of w's;
\* with only self's, a list is created with self's flags and a clone of it
\* stored (the created list itself stays allocated); else nothing.
add_nvlist(v, name, w) ==
    LET c_name == Expect(CString_new(name))
    IN /\ heap' =
            IF IsSome(vars[v]) /\ IsSome(vars[w]) /\ Ptr(w) # NULL
            THEN nvlist_add_nvlist(heap, Ptr(v), c_name, Ptr(w))
            ELSE IF IsSome(vars[v])
            THEN LET c == nvlist_create(heap, NvFlag_as_i32(flags(v)))
                 IN nvlist_add_nvlist(c.hp, Ptr(v), c_name, c.h)
            ELSE heap
       /\ UNCHANGED vars
       /\ last' = Logged("add_nvlist", v, name)

\* A variant that stores nothing when an element of the slice holds no list.
add_nvlist_slice_strict(v, name, ws) ==
    /\ heap' =
         IF IsSome(vars[v]) /\ \A i \in 1..Len(ws) : IsSome(vars[ws[i]])
         THEN LET c_name == Expect(CString_new(name))
              IN nvlist_add_nvlist_array(heap, Ptr(v), c_name,
                                         [i \in 1..Len(ws) |-> Unwrap(vars[ws[i]])])
         ELSE heap
    /\ UNCHANGED vars
    /\ last' = Logged("add_nvlist_slice", v, name)

\* add_nvlist_slice(name, &ws): the elements that hold a non-null list are
\* kept, in order, and libnv stores a clone of each.
add_nvlist_slice(v, name, ws) ==
    /\ heap' =
         IF IsSome(vars[v])
         THEN LET c_name == Expect(CString_new(name))
                  tmp == SelectSeq([i \in 1..Len(ws) |-> vars[ws[i]]],
                                   LAMBDA o : IsSome(o) /\ Unwrap(o) # NULL)
              IN nvlist_add_nvlist_array(heap, Ptr(v), c_name,
                                         [i \in 1..Len(tmp) |-> Unwrap(tmp[i])])
         ELSE heap
    /\ UNCHANGED vars
    /\ last' = Logged("add_nvlist_slice", v, name)

\* The values the generic add takes, by kind: bool, u64, str, NvList (the
\* variable that holds it) and Option<T> over one of these.
Value(kind, val) == [kind |-> kind, val |-> val]

\* nv_add of bool, u64, str and NvList: the add_<type> method the macro names.
nv_add_plain(value, v, name) ==
    CASE value.kind = "bool" -> add_bool(v, name, value.val)
      [] value.kind = "u64" -> add_number(v, name, value.val)
      [] value.kind = "str" -> add_string(v, name, value.val)
      [] value.kind = "NvList" -> add_nvlist(v, name, value.val)

\* A variant whose None arm inserts nothing.
nv_add_skip_none(value, v, name) ==
    IF value.kind = "Option"
    THEN IF IsSome(value.val)
         THEN nv_add_plain(Unwrap(value.val), v, name)
         ELSE /\ UNCHANGED <<vars, heap>>
              /\ last' = Logged("add_null", v, name)
    ELSE nv_add_plain(value, v, name)

\* nv_add: for Option<T>, Some(val) is val.nv_add and None is add_null.
nv_add(value, v, name) ==
    IF value.kind = "Option"
    THEN IF IsSome(value.val)
         THEN nv_add_plain(Unwrap(value.val), v, name)
         ELSE add_null(v, name)
    ELSE nv_add_plain(value, v, name)

\* add(name, value): value.nv_add(self, name).
add(v, name, value) == nv_add(value, v, name)

\* A variant that calls nvlist_free twice.
free_twice(v, name) ==
    LET c_name == Expect(CString_new(name))
    IN /\ heap' = IF IsSome(vars[v])
                  THEN nvlist_free(nvlist_free(heap, Ptr(v), c_name), Ptr(v), c_name)
                  ELSE heap
       /\ UNCHANGED vars
       /\ last' = Logged("free", v, name)

free(v, name) ==
    LET c_name == Expect(CString_new(name))
    IN /\ heap' = IF IsSome(vars[v]) THEN nvlist_free(heap, Ptr(v), c_name) ELSE heap
       /\ UNCHANGED vars
       /\ last' = Logged("free", v, name)

\* A variant that calls nvlist_free, whatever the type asked for.
free_type_any(v, name, ty) ==
    LET c_name == Expect(CString_new(name))
    IN /\ heap' = IF IsSome(vars[v]) THEN nvlist_free(heap, Ptr(v), c_name) ELSE heap
       /\ UNCHANGED vars
       /\ last' = Logged("free_type", v, name)

free_type(v, name, ty) ==
    LET c_name == Expect(CString_new(name))
    IN /\ heap' = IF IsSome(vars[v])
                  THEN nvlist_free_type(heap, Ptr(v), c_name, NvType_as_i32(ty))
                  ELSE heap
       /\ UNCHANGED vars
       /\ last' = Logged("free_type", v, name)

\* The value clone() builds: None for None, else Some(nvlist_clone(list)).
clone_of(hp, o) ==
    IF IsSome(o) THEN LET c == nvlist_clone(hp, Unwrap(o))
                      IN [hp |-> c.hp, list |-> Some(c.h)]
    ELSE [hp |-> hp, list |-> None]

\* A variant that copies the pointer: NvList { list: self.list }.
clone_shallow(src, dst) ==
    /\ heap' = IF vars[dst] = vars[src] THEN heap ELSE drop(heap, vars[dst])
    /\ vars' = [vars EXCEPT ![dst] = vars[src]]
    /\ last' = Logged("clone", src, <<>>)

\* dst = src.clone(); the value dst held is dropped after the clone is made.
clone(src, dst) ==
    LET c == clone_of(heap, vars[src])
    IN /\ heap' = drop(c.hp, vars[dst])
       /\ vars' = [vars EXCEPT ![dst] = c.list]
       /\ last' = Logged("clone", src, <<>>)

\* A variant that wraps the pointer nvlist_get_nvlist returns, without a clone.
get_nvlist_of_borrowed(hp, v, name) ==
    IF IsSome(get_nvlist_found(v, name))
    THEN [hp |-> hp, ret |-> Some(get_nvlist_found(v, name))]
    ELSE [hp |-> hp, ret |-> None]

\* The value get_nvlist(name) builds: Some(NvList over a clone of the stored
\* child) when nvlist_exists_nvlist says there is one, else None.
get_nvlist_of(hp, v, name) ==
    LET found == get_nvlist_found(v, name)
    IN IF IsSome(found)
       THEN LET c == nvlist_clone(hp, Unwrap(found))
            IN [hp |-> c.hp, ret |-> Some(Some(c.h))]
       ELSE [hp |-> hp, ret |-> None]

\* if let Some(x) = v.get_nvlist(name) { dst = x; }
get_nvlist(v, name, dst) ==
    LET r == get_nvlist_of(heap, v, name)
    IN /\ heap' = IF IsSome(r.ret) THEN drop(r.hp, vars[dst]) ELSE r.hp
       /\ vars' = IF IsSome(r.ret) THEN [vars EXCEPT ![dst] = Unwrap(r.ret)] ELSE vars
       /\ last' = Logged("get_nvlist", v, name)

\* let _ = v.clone();  the clone is made and dropped at once.
clone_discard(v) ==
    LET c == clone_of(heap, vars[v])
    IN /\ heap' = drop(c.hp, c.list)
       /\ UNCHANGED vars
       /\ last' = Logged("clone", v, <<>>)

\* let _ = v.get_nvlist(name);  the NvList returned, if any, is dropped at once.
get_nvlist_discard(v, name) ==
    LET r == get_nvlist_of(heap, v, name)
    IN /\ heap' = IF IsSome(r.ret) THEN drop(r.hp, Unwrap(r.ret)) ELSE r.hp
       /\ UNCHANGED vars
       /\ last' = Logged("get_nvlist", v, name)

\* The value get_nvlist_vec(name) builds: Some(vector of NvLists, each over a
\* clone of one stored element) when nvlist_exists_nvlist_array says there is
\* an array, else None.
get_nvlist_vec_of(hp, v, name) ==
    LET found == get_nvlist_vec_found(v, name)
    IN IF IsSome(found)
       THEN LET a == CloneArray(hp, Unwrap(found), 1, <<>>)
            IN [hp |-> a.hp,
                ret |-> Some([i \in 1..Len(a.out) |-> Some(a.out[i])])]
       ELSE [hp |-> hp, ret |-> None]

(***************************************************************************)
(* The client: any sequence of calls, within the bounds.                   *)
(***************************************************************************)
Valid(v) == IsSome(vars[v])

\* Bound: an insertion is tried only on a list with room for the pair.
HasRoom(v) == IsSome(vars[v]) => Len(Obj(v).entries) < MaxEntries

\* Bound: n more objects fit in the heap.
HeapRoom(n) == Cardinality(FreeHandles(heap)) >= n

\* Objects a clone of o takes.
CloneCost(o) == IF IsSome(o) THEN Cardinality(Subtree(heap, Unwrap(o))) ELSE 0

RECURSIVE SumCost(_, _)
SumCost(ws, i) == IF i > Len(ws) THEN 0 ELSE CloneCost(vars[ws[i]]) + SumCost(ws, i + 1)

\* Objects add_nvlist(_, _, w) takes: the clone, and the list it creates first
\* when w holds none.
AddNvlistCost(w) == IF IsSome(vars[w]) THEN CloneCost(vars[w]) ELSE 2

\* Objects get_nvlist(v, n) takes: the clone of the child it finds.
GetNvlistCost(v, n) ==
    IF IsSome(get_nvlist_found(v, n))
    THEN Cardinality(Subtree(heap, Unwrap(get_nvlist_found(v, n))))
    ELSE 0

\* The values a call on v may borrow: the other variables and a temporary.
Others(v) == (Slots \ {v}) \cup {Temp}

NvListSlices(v) ==
    { <<w>> : w \in Slots \ {v} } \cup { <<Temp, w>> : w \in Slots \ {v} }

\* a = NvList::new(f).unwrap() for any flags f; b = NvList::default().
Init ==
    /\ \E f \in NvFlags :
          /\ heap = [h \in Handles |->
                       IF h = 1 THEN NewList(NvFlag_as_i32(f)) ELSE FreeCell]
          /\ vars = [v \in Slots \cup {Temp} |-> IF v = "a" THEN Some(1) ELSE None]
    /\ last = Logged("new", "a", <<>>)

\* The calls that change the list they are made on.
Next ==
    \/ \E v \in Slots, code \in ErrorCodes : set_error(v, code)
    \/ \E v \in Slots, n \in Names : HasRoom(v) /\ add_null(v, n)
    \/ \E v \in Slots, n \in Names, x \in Bools : HasRoom(v) /\ add_bool(v, n, x)
    \/ \E v \in Slots, n \in Names, x \in Numbers : HasRoom(v) /\ add_number(v, n, x)
    \/ \E v \in Slots, n \in Names, x \in Strings : HasRoom(v) /\ add_string(v, n, x)
    \/ \E v \in Slots, n \in Names, x \in BoolSlices :
          HasRoom(v) /\ add_bool_slice(v, n, x)
    \/ \E v \in Slots, n \in Names, x \in NumberSlices :
          HasRoom(v) /\ add_number_slice(v, n, x)
    \/ \E v \in Slots, n \in Names, x \in StringSlices :
          HasRoom(v) /\ add_string_slice(v, n, x)
    \/ \E v \in Slots, n \in Names : \E w \in Others(v) :
          HasRoom(v) /\ HeapRoom(AddNvlistCost(w)) /\ add_nvlist(v, n, w)
    \/ \E v \in Slots, n \in Names : \E ws \in NvListSlices(v) :
          HasRoom(v) /\ HeapRoom(SumCost(ws, 1)) /\ add_nvlist_slice(v, n, ws)
    \/ \E v \in Slots, n \in Names : free(v, n)
    \/ \E v \in Slots, n \in Names, ty \in FreeTypes : free_type(v, n, ty)
    \/ \E v \in Slots : HeapRoom(CloneCost(vars[v])) /\ clone_discard(v)
    \/ \E v \in Slots, n \in Names :
          HeapRoom(GetNvlistCost(v, n))
          /\ get_nvlist_discard(v, n)

Spec == Init /\ [][Next]_allvars

(***************************************************************************)
(* A client that holds two containers and nests, clones and reads them     *)
(* back: b is created, filled, stored in a, changed, cloned, replaced by   *)
(* what get_nvlist returns.                                                *)
(***************************************************************************)
\* a = NvList::new(NvFlag::NoUnique).unwrap(); b = NvList::default().
InitNested ==
    /\ heap = [h \in Handles |->
                 IF h = 1 THEN NewList(NvFlag_as_i32("NoUnique")) ELSE FreeCell]
    /\ vars = [v \in Slots \cup {Temp} |-> IF v = "a" THEN Some(1) ELSE None]
    /\ last = Logged("new", "a", <<>>)

NestedNames == { <<"k", "e", "y">> }

NextNested ==
    \/ HeapRoom(1) /\ new("b", "None")
    \/ default("b")
    \/ Valid("a") /\ set_error("a", 22)
    \/ \E n \in NestedNames, x \in Bools : HasRoom("a") /\ add_bool("a", n, x)
    \/ \E n \in NestedNames : HasRoom("b") /\ add_bool("b", n, TRUE)
    \/ \E n \in NestedNames, x \in NumberSlices :
          HasRoom("a") /\ add_number_slice("a", n, x)
    \/ \E n \in NestedNames :
          /\ Valid("b") /\ HasRoom("a") /\ HeapRoom(AddNvlistCost("b"))
          /\ add_nvlist("a", n, "b")
    \/ \E v \in Slots, n \in NestedNames : free(v, n)
    \/ HeapRoom(CloneCost(vars["a"])) /\ clone("a", "b")
    \/ \E n \in NestedNames :
          HeapRoom(GetNvlistCost("a", n)) /\ get_nvlist("a", n, "b")

SpecNested == InitNested /\ [][NextNested]_allvars

(***************************************************************************)
(* A client that stores slices of containers: b is created with any flags, *)
(* filled, and handed to a in a slice next to NvList::default().           *)
(***************************************************************************)
\* &[NvList::default(), b] and &[b, NvList::default(), b'], b' a list that
\* holds what b holds.
NestedSlices == { <<Temp, "b">>, <<"b", Temp, "b">> }

NextSlice ==
    \/ \E f \in NvFlags : HeapRoom(1) /\ new("b", f)
    \/ default("b")
    \/ Valid("a") /\ set_error("a", 22)
    \/ \E n \in NestedNames : HasRoom("a") /\ add_null("a", n)
    \/ \E n \in NestedNames : HasRoom("b") /\ add_bool("b", n, TRUE)
    \/ \E n \in NestedNames, ws \in NestedSlices :
          /\ HasRoom("a") /\ HeapRoom(SumCost(ws, 1))
          /\ add_nvlist_slice("a", n, ws)
    \/ \E n \in NestedNames : free("a", n)

SpecSlice == Init /\ [][NextSlice]_allvars

(***************************************************************************)
(* A client that fills a container through the generic add.  An NvList     *)
(* handed over is the temporary NvList::default(), which holds no list, so *)
(* its drop at the end of add releases nothing.                            *)
(***************************************************************************)
PlainValues ==
    { Value("bool", x) : x \in Bools } \cup { Value("u64", x) : x \in Numbers }
        \cup { Value("str", x) : x \in Strings } \cup { Value("NvList", Temp) }

AddValues ==
    PlainValues \cup { Value("Option", None) }
        \cup { Value("Option", Some(x)) : x \in PlainValues }

NextAdd ==
    \/ \E v \in Slots, n \in Names, value \in AddValues :
          /\ HasRoom(v) /\ HeapRoom(2)
          /\ add(v, n, value)
    \/ \E v \in Slots, n \in Names : free(v, n)
    \/ \E v \in Slots, code \in ErrorCodes : set_error(v, code)

SpecAdd == Init /\ [][NextAdd]_allvars

(***************************************************************************)
(* A client that creates b with any flags and then makes every mutating    *)
(* call on it.                                                             *)
(***************************************************************************)
NextFlags ==
    \/ \E f \in NvFlags : HeapRoom(1) /\ new("b", f)
    \/ \E code \in ErrorCodes : set_error("b", code)
    \/ \E n \in NestedNames : HasRoom("b") /\ add_null("b", n)
    \/ \E n \in NestedNames, x \in Bools : HasRoom("b") /\ add_bool("b", n, x)
    \/ \E n \in NestedNames, x \in Numbers : HasRoom("b") /\ add_number("b", n, x)
    \/ \E n \in NestedNames, x \in Strings : HasRoom("b") /\ add_string("b", n, x)
    \/ \E n \in NestedNames, x \in BoolSlices :
          HasRoom("b") /\ add_bool_slice("b", n, x)
    \/ \E n \in NestedNames, x \in NumberSlices :
          HasRoom("b") /\ add_number_slice("b", n, x)
    \/ \E n \in NestedNames, x \in StringSlices :
          HasRoom("b") /\ add_string_slice("b", n, x)
    \/ \E n \in NestedNames :
          HasRoom("b") /\ HeapRoom(AddNvlistCost("a")) /\ add_nvlist("b", n, "a")
    \/ \E n \in NestedNames :
          HasRoom("b") /\ HeapRoom(SumCost(<<Temp, "a">>, 1))
          /\ add_nvlist_slice("b", n, <<Temp, "a">>)
    \/ \E n \in NestedNames : free("b", n)
    \/ \E n \in NestedNames, ty \in FreeTypes : free_type("b", n, ty)

SpecFlags == Init /\ [][NextFlags]_allvars

(***************************************************************************)
(* A client that passes text with a NUL byte in it, and reads strings      *)
(* back.  Here a call is the whole method, the .expect() on CString::new   *)
(* included: when it is reached with text that holds a NUL, the method     *)
(* panics, which is logged as "panic" and ends the run.                    *)
(***************************************************************************)
NulName == <<"k", NUL>>

NulString == <<"h", NUL>>

TextNames == {KeyLower, NulName}

TextStrings == Strings \cup {NulString}

\* .expect() on the Err side, for any of the texts handed to CString::new.
Panics(texts) == \E t \in texts : CString_new(t)[1] = "Err"

\* panic!: the call does not return.
panic(v) ==
    /\ UNCHANGED <<vars, heap>>
    /\ last' = Logged("panic", v, <<>>)

\* add_null, whole: CString::new(name) is reached only with a list.
add_null_call(v, name) ==
    IF IsSome(vars[v]) /\ Panics({name}) THEN panic(v) ELSE add_null(v, name)

\* add_string, whole: CString::new of the name and of the value, with a list.
add_string_call(v, name, value) ==
    IF IsSome(vars[v]) /\ Panics({name, value}) THEN panic(v)
    ELSE add_string(v, name, value)

\* add_nvlist, whole: CString::new(name) comes before the match on the lists.
add_nvlist_call(v, name, w) ==
    IF Panics({name}) THEN panic(v) ELSE add_nvlist(v, name, w)

\* exists, whole: CString::new(name) comes before the match on the list.
exists_call(v, name) ==
    IF Panics({name}) THEN panic(v)
    ELSE /\ UNCHANGED <<vars, heap>>
         /\ last' = Logged("exists", v, name)

\* free, whole: CString::new(name) comes before the if let.
free_call(v, name) ==
    IF Panics({name}) THEN panic(v) ELSE free(v, name)

\* { let s = v.get_string(name); }  String::from_raw_parts builds the String
\* over the buffer nvlist_get_string points at, which the nvlist owns; as s is
\* dropped the buffer is released while the pair still points at it, and what
\* the pair reads from then on is the text or whatever the memory holds.
get_string_call(v, name) ==
    IF Panics({name}) THEN panic(v)
    ELSE LET i == IF IsSome(vars[v])
                  THEN nvlist_find(Obj(v), NvType_as_i32("String"), Expect(CString_new(name)))
                  ELSE 0
         IN /\ IF i = 0 THEN heap' = heap
               ELSE \E left \in {Obj(v).entries[i].value, Garbage} :
                       heap' = [heap EXCEPT ![Ptr(v)].entries[i].value = left]
            /\ UNCHANGED vars
            /\ last' = Logged("get_string", v, name)

\* No call follows a panic.
Running == last.op # "panic"

NextText ==
    \/ \E v \in Slots, n \in TextNames : Running /\ HasRoom(v) /\ add_null_call(v, n)
    \/ \E v \in Slots, n \in TextNames, x \in TextStrings :
          Running /\ HasRoom(v) /\ add_string_call(v, n, x)
    \/ \E v \in Slots, n \in TextNames :
          Running /\ HasRoom(v) /\ HeapRoom(AddNvlistCost(Temp))
          /\ add_nvlist_call(v, n, Temp)
    \/ \E v \in Slots, n \in TextNames : Running /\ exists_call(v, n)
    \/ \E v \in Slots, n \in TextNames : Running /\ free_call(v, n)
    \/ \E v \in Slots, n \in TextNames : Running /\ get_string_call(v, n)

SpecText == Init /\ [][NextText]_allvars

(***************************************************************************)
(* What the claims are stated with.                                        *)
(***************************************************************************)
\* Name equality as the specification words it: the same bytes, or, on a
\* container created with IgnoreCase or All, the same letters.
SameName(f, s, t) ==
    \/ s = t
    \/ f \in {"IgnoreCase", "All"} /\ {s, t} = {KeyUpper, KeyLower}

\* Positions of the entries of v with the name n (and the type ty).
Named(v, n) ==
    { i \in 1..Len(Obj(v).entries) : SameName(flags(v), Obj(v).entries[i].name, n) }

NamedTyped(v, n, ty) ==
    { i \in Named(v, n) : Obj(v).entries[i].type = NvType_as_i32(ty) }

AddOps == {"add_null", "add_bool", "add_number", "add_string", "add_nvlist",
           "add_bool_slice", "add_number_slice", "add_string_slice",
           "add_nvlist_slice"}

MutatorOps == AddOps \cup {"free", "free_type", "set_error"}

\* The step is an add_* call on v with the name n.
AddStep(v, n) ==
    \/ add_null(v, n)
    \/ \E x \in Bools : add_bool(v, n, x)
    \/ \E x \in Numbers : add_number(v, n, x)
    \/ \E x \in Strings : add_string(v, n, x)
    \/ \E x \in BoolSlices : add_bool_slice(v, n, x)
    \/ \E x \in NumberSlices : add_number_slice(v, n, x)
    \/ \E x \in StringSlices : add_string_slice(v, n, x)
    \/ \E w \in Others(v) : HeapRoom(AddNvlistCost(w)) /\ add_nvlist(v, n, w)
    \/ \E ws \in NvListSlices(v) : HeapRoom(SumCost(ws, 1)) /\ add_nvlist_slice(v, n, ws)

\* The result of each typed getter, by the type it reads.
GetterOf(v, n, ty) ==
    CASE ty = "Bool" -> get_bool(v, n)
      [] ty = "Number" -> get_number(v, n)
      [] ty = "String" -> get_string(v, n)
      [] ty = "NvList" -> get_nvlist_found(v, n)
      [] ty = "BoolArray" -> get_bool_slice(v, n)
      [] ty = "NumberArray" -> get_number_slice(v, n)
      [] ty = "StringArray" -> get_string_vec(v, n)
      [] ty = "NvListArray" -> get_nvlist_vec_found(v, n)

GetterTypes == {"Bool", "Number", "String", "NvList", "BoolArray", "NumberArray",
                "StringArray", "NvListArray"}

\* The lowest position of a set of positions.
FirstOf(S) == CHOOSE i \in S : \A j \in S : i <= j

\* An insertion under the name n into v takes place: v is not in error, and
\* holds no entry of the name unless it was created with NoUnique or All.
Insertable(v, n) ==
    /\ error(v) = 0
    /\ flags(v) \in {"NoUnique", "All"} \/ Named(v, n) = {}

\* What an empty container with the flags of v holds.
EmptyLike(v) == [flags |-> NvFlag_as_i32(flags(v)), entries |-> <<>>]

\* A sequence without its element at position i.
Without(seq, i) ==
    [j \in 1..(Len(seq) - 1) |-> IF j < i THEN seq[j] ELSE seq[j + 1]]

\* What a list holds, children by what they hold, not by where they are.
RECURSIVE DeepView(_, _)
DeepView(hp, h) ==
    [flags |-> hp[h].flags,
     entries |-> [i \in 1..Len(hp[h].entries) |->
        LET p == hp[h].entries[i]
        IN IF p.type = NV_TYPE_NVLIST
           THEN [p EXCEPT !.value = DeepView(hp, p.value)]
           ELSE IF p.type = NV_TYPE_NVLIST_ARRAY
           THEN [p EXCEPT !.value = [k \in 1..Len(p.value) |-> DeepView(hp, p.value[k])]]
           ELSE p]]

\* What the variable v holds.
View(v) == IF Valid(v) THEN Some(DeepView(heap, Ptr(v))) ELSE None

\* What the child get_nvlist(n) finds in v holds.
StoredView(v, n) ==
    IF IsSome(get_nvlist_found(v, n))
    THEN Some(DeepView(heap, Unwrap(get_nvlist_found(v, n))))
    ELSE None

\* The objects reachable from the variable v.
Owned(v) == IF Valid(v) THEN Subtree(heap, Ptr(v)) ELSE {}

(***************************************************************************)
(* C1.  An invalid container (list = None) stays as it is under every      *)
(* add_*, free, free_type and set_error call: the call changes neither the *)
(* variable nor the heap; is_empty() is true, len() is 0, exists and       *)
(* exists_type are false and every getter is None for every name, error()  *)
(* is 0xc, and set_error(code) returns Err(ErrorNotSet(code)).             *)
(***************************************************************************)
InvalidReads(v) ==
    /\ is_empty(v)
    /\ len(v) = 0
    /\ error(v) = 12
    /\ \A code \in ErrorCodes : set_error_ret(v, code) = <<"Err", "ErrorNotSet", code>>
    /\ \A n \in Names :
          /\ ~exists(v, n)
          /\ \A ty \in NvTypes : ~exists_type(v, n, ty)
          /\ \A ty \in GetterTypes : ~IsSome(GetterOf(v, n, ty))

C1_InvalidContainerNoOp ==
    /\ [](\A v \in Slots : ~Valid(v) => InvalidReads(v))
    /\ [][\A v \in Slots :
            (~Valid(v) /\ last'.slot = v /\ last'.op \in MutatorOps)
                => (vars' = vars /\ heap' = heap)]_allvars

C1_Witness ==
    \E v \in Slots : ~Valid(v) /\ last.slot = v /\ last.op = "add_number"

(***************************************************************************)
(* C2.  On a valid container created without NoUnique, an add_* call with  *)
(* a name that is already present (under the container's case policy)      *)
(* inserts nothing: the entries stay as they were, first entry included,   *)
(* and error() is non-zero afterwards.                                     *)
(***************************************************************************)
C2_DuplicateRejected ==
    [][\A v \in Slots, n \in Names :
          (/\ Valid(v)
           /\ flags(v) \in {"None", "IgnoreCase"}
           /\ Named(v, n) # {}
           /\ last'.slot = v /\ last'.op \in AddOps
           /\ AddStep(v, n))
          => (/\ heap'[Ptr(v)].entries = Obj(v).entries
              /\ heap'[Ptr(v)].error # 0)]_allvars

C2_Witness ==
    \E v \in Slots :
        /\ Valid(v)
        /\ flags(v) = "IgnoreCase"
        /\ last.slot = v /\ last.op \in AddOps
        /\ error(v) = EEXIST
        /\ Len(Obj(v).entries) = 1

(***************************************************************************)
(* C3.  A typed getter returns None whenever no entry of the name carries  *)
(* its type, whatever other entries of the name there are; what it returns *)
(* otherwise is the value of an entry of the name and of its type.         *)
(***************************************************************************)
C3_TypedGetterNoConfusion ==
    \A v \in Slots, n \in Names, ty \in GetterTypes :
        Valid(v) =>
            /\ NamedTyped(v, n, ty) = {} => GetterOf(v, n, ty) = None
            /\ IsSome(GetterOf(v, n, ty)) =>
                  \E i \in NamedTyped(v, n, ty) :
                      Obj(v).entries[i].value = Unwrap(GetterOf(v, n, ty))

\* add_string(x, "hi") and then get_number(x).
C3_Witness ==
    \E v \in Slots, n \in Names :
        /\ Valid(v)
        /\ NamedTyped(v, n, "String") # {}
        /\ NamedTyped(v, n, "Number") = {}
        /\ last.op = "add_string"
        /\ get_number(v, n) = None

(***************************************************************************)
(* C4.  On a valid container created with NoUnique or All, every typed     *)
(* getter returns the value of the earliest entry of the name that has the *)
(* getter's type, whatever entries of the name and other types come before *)
(* it; and the NvList get_nvlist(n) returns holds what the earliest nested *)
(* container of the name holds.                                            *)
(***************************************************************************)
C4_FirstMatch ==
    /\ [](\A v \in Slots, n \in Names, ty \in GetterTypes :
            (Valid(v) /\ flags(v) \in {"NoUnique", "All"} /\ NamedTyped(v, n, ty) # {})
                => GetterOf(v, n, ty)
                     = Some(Obj(v).entries[FirstOf(NamedTyped(v, n, ty))].value))
    /\ [][\A v \in Slots, n \in Names : \A dst \in Slots \ {v} :
            (/\ last'.op = "get_nvlist" /\ last'.slot = v
             /\ Valid(v) /\ flags(v) \in {"NoUnique", "All"}
             /\ NamedTyped(v, n, "NvList") # {}
             /\ HeapRoom(GetNvlistCost(v, n))
             /\ get_nvlist(v, n, dst))
                => View(dst)'
                     = Some(DeepView(heap,
                          Obj(v).entries[FirstOf(NamedTyped(v, n, "NvList"))].value))
       ]_allvars

\* a holds a bool and then a nested container that holds something, under one
\* name; b has just been read back with get_nvlist and holds the same.
C4_Witness ==
    /\ Valid("a") /\ Valid("b")
    /\ last.op = "get_nvlist" /\ last.slot = "a"
    /\ Len(Obj("a").entries) = 2
    /\ Obj("a").entries[1].name = KeyLower /\ Obj("a").entries[2].name = KeyLower
    /\ Obj("a").entries[1].type = NvType_as_i32("Bool")
    /\ Obj("a").entries[2].type = NV_TYPE_NVLIST
    /\ get_bool("a", KeyLower) = Some(Obj("a").entries[1].value)
    /\ Len(Obj("b").entries) = 1
    /\ View("b") = StoredView("a", KeyLower)

(***************************************************************************)
(* C5.  exists(n) on a valid container is true exactly when some entry has *)
(* the name n, letter case ignored exactly on a container created with     *)
(* IgnoreCase (or All).                                                    *)
(***************************************************************************)
C5_ExistsCasePolicy ==
    \A v \in Slots, n \in Names :
        Valid(v) => (exists(v, n) <=> Named(v, n) # {})

\* add_number("Key", 1) and then exists("key") on an IgnoreCase container.
C5_Witness ==
    \E v \in Slots :
        /\ Valid(v)
        /\ flags(v) = "IgnoreCase"
        /\ Len(Obj(v).entries) = 1
        /\ Obj(v).entries[1].name = KeyUpper
        /\ Obj(v).entries[1].type = NvType_as_i32("Number")
        /\ exists(v, KeyLower)

(***************************************************************************)
(* C6.  b = a.clone() of a valid a leaves a as it was and makes b hold the  *)
(* same flags and the same entries, in order, with the same types and      *)
(* values, nested containers compared by what they hold, in objects none   *)
(* of which a reaches.  Two variables never reach a common object, and an  *)
(* add_*, free, free_type or set_error call on one changes neither what    *)
(* the other holds nor its error.                                          *)
(***************************************************************************)
C6_CloneIndependent ==
    /\ [](\A v \in Slots : \A w \in Slots \ {v} : Owned(v) \cap Owned(w) = {})
    /\ [][\A src \in Slots : \A dst \in Slots \ {src} :
            (/\ last'.op = "clone" /\ last'.slot = src
             /\ Valid(src)
             /\ HeapRoom(CloneCost(vars[src]))
             /\ clone(src, dst))
                => /\ View(dst)' = View(src)
                   /\ View(src)' = View(src)
                   /\ error(src)' = error(src)
                   /\ Owned(dst)' \cap Owned(src)' = {}
       ]_allvars
    /\ [][\A v \in Slots : \A w \in Slots \ {v} :
            (last'.slot = v /\ last'.op \in MutatorOps)
                => (View(w)' = View(w) /\ error(w)' = error(w))
       ]_allvars

\* b is a clone of a with a nested container and a number array, and a has
\* lost an entry since.
C6_Witness ==
    /\ Valid("a") /\ Valid("b")
    /\ last.slot = "a" /\ last.op = "free"
    /\ flags("b") = "NoUnique"
    /\ Len(Obj("b").entries) = 2
    /\ { Obj("b").entries[i].type : i \in 1..2 }
         = { NV_TYPE_NVLIST, NvType_as_i32("NumberArray") }
    /\ Len(Obj("a").entries) = 1

(***************************************************************************)
(* C7.  add_nvlist(n, &w) on v, when it stores, stores a container that    *)
(* holds what w holds in objects w does not reach; get_nvlist(n) on v,     *)
(* when it finds a child, returns a container that holds what the child    *)
(* holds in objects v does not reach, and leaves the child as it was; and  *)
(* an add_*, free, free_type or set_error call on one variable changes, for *)
(* no name, what the child found in another variable holds.                *)
(***************************************************************************)
C7_NestedNeverAliased ==
    /\ [][\A v \in Slots, n \in Names : \A w \in Slots \ {v} :
            (/\ last'.op = "add_nvlist" /\ last'.slot = v
             /\ Valid(v) /\ Valid(w)
             /\ WouldInsert(Obj(v), n)
             /\ HeapRoom(AddNvlistCost(w))
             /\ add_nvlist(v, n, w))
                => LET stored == heap'[Ptr(v)].entries[Len(heap'[Ptr(v)].entries)]
                   IN /\ stored.name = n /\ stored.type = NV_TYPE_NVLIST
                      /\ Subtree(heap', stored.value) \cap Owned(w)' = {}
                      /\ Some(DeepView(heap', stored.value)) = View(w)
                      /\ View(w)' = View(w)
       ]_allvars
    /\ [][\A v \in Slots, n \in Names : \A dst \in Slots \ {v} :
            (/\ last'.op = "get_nvlist" /\ last'.slot = v
             /\ IsSome(get_nvlist_found(v, n))
             /\ HeapRoom(GetNvlistCost(v, n))
             /\ get_nvlist(v, n, dst))
                => /\ Valid(dst)'
                   /\ Owned(dst)' \cap Owned(v)' = {}
                   /\ View(dst)' = StoredView(v, n)
                   /\ StoredView(v, n)' = StoredView(v, n)
       ]_allvars
    /\ [][\A v \in Slots : \A w \in Slots \ {v} : \A n \in Names :
            (last'.slot = v /\ last'.op \in MutatorOps)
                => StoredView(w, n)' = StoredView(w, n)
       ]_allvars

\* a holds an empty child, stored from b or read back into b, and b has had a
\* bool added since.
C7_Witness ==
    /\ Valid("a") /\ Valid("b")
    /\ last.slot = "b" /\ last.op = "add_bool"
    /\ IsSome(StoredView("a", KeyLower))
    /\ Unwrap(StoredView("a", KeyLower)).entries = <<>>
    /\ Len(Obj("b").entries) = 1
    /\ error("b") = 0

(***************************************************************************)
(* C8.  The error of a valid container is sticky: set_error(code) makes    *)
(* error() return code, and once error() is non-zero no add_*, free,       *)
(* free_type, get_nvlist or clone call makes it 0 again.                   *)
(***************************************************************************)
C8_ErrorSticky ==
    [][\A v \in Slots :
          Valid(v) =>
            /\ \A code \in ErrorCodes :
                  (last'.op = "set_error" /\ last'.slot = v /\ set_error(v, code))
                      => heap'[Ptr(v)].error = code
            /\ (error(v) # 0 /\ last'.op # "set_error")
                  => (Valid(v)' /\ heap'[Ptr(v)].error # 0)]_allvars

\* A container in error, from a failed insert, has just been cloned.
C8_Witness ==
    \E v \in Slots :
        /\ Valid(v)
        /\ error(v) = EEXIST
        /\ last.slot = v /\ last.op = "clone"

(***************************************************************************)
(* C11.  No call of the API panics, whatever the container (valid, in      *)
(* error or invalid) and whatever the name or value passed, a name with a  *)
(* NUL byte included: the log never shows a panic.                         *)
(***************************************************************************)
C11_NoPanic == last.op # "panic"

(***************************************************************************)
(* C12.  get_string returns a copy of the stored text: a get_string call   *)
(* whose result is dropped leaves, for every name, what get_string reads   *)
(* from the container as it was.                                           *)
(***************************************************************************)
C12_GetStringOwnedCopy ==
    [][\A v \in Slots, n \in Names :
          (last'.op = "get_string" /\ last'.slot = v /\ Valid(v))
              => get_string(v, n)' = get_string(v, n)
      ]_allvars

C14_FreeRemovesEarliest ==
    [][\A v \in Slots, n \in Names :
          /\ (/\ last'.op = "free" /\ last'.slot = v
              /\ Valid(v) /\ Named(v, n) # {}
              /\ free(v, n))
                 => /\ heap'[Ptr(v)].entries
                         = Without(Obj(v).entries, FirstOf(Named(v, n)))
                    /\ heap'[Ptr(v)].error = Obj(v).error
                    /\ vars' = vars
          /\ \A ty \in FreeTypes :
                (/\ last'.op = "free_type" /\ last'.slot = v
                 /\ Valid(v) /\ NamedTyped(v, n, ty) # {}
                 /\ free_type(v, n, ty))
                    => /\ heap'[Ptr(v)].entries
                            = Without(Obj(v).entries, FirstOf(NamedTyped(v, n, ty)))
                       /\ heap'[Ptr(v)].error = Obj(v).error
                       /\ vars' = vars
      ]_allvars

\* A container that allows duplicates held two entries, a nested container
\* among them (the list add_nvlist created for it is still allocated, the
\* child is not), and free has just left one entry.
C14_Witness ==
    \E v \in Slots :
        /\ Valid(v) /\ flags(v) = "NoUnique"
        /\ last.slot = v /\ last.op = "free"
        /\ Len(Obj(v).entries) = 1
        /\ Children(Obj(v)) = {}
        /\ Cardinality(Handles \ FreeHandles(heap)) = 2

(***************************************************************************)
(* C15.  No list ever holds a child that is no live list.  add_nvlist(n,   *)
(* &w) on a valid v with an invalid w, when the insertion takes place,     *)
(* appends a nested container that is empty and has the flags of v, and    *)
(* leaves w invalid; when v held no nested container of the name before,   *)
(* get_nvlist(n) then returns a valid container that is empty and has the  *)
(* flags of v.                                                             *)
(***************************************************************************)
C15_InvalidValueStoresEmpty ==
    /\ [](\A h \in Handles : heap[h].live =>
             \A c \in Children(heap[h]) : c # NULL /\ heap[c].live)
    /\ [][\A v \in Slots, n \in Names : \A w \in Others(v) :
            (/\ last'.op = "add_nvlist" /\ last'.slot = v
             /\ Valid(v) /\ ~Valid(w) /\ Insertable(v, n)
             /\ HeapRoom(AddNvlistCost(w))
             /\ add_nvlist(v, n, w))
                => LET stored == heap'[Ptr(v)].entries[Len(heap'[Ptr(v)].entries)]
                       got == get_nvlist_of(heap, v, n)'
                   IN /\ Len(heap'[Ptr(v)].entries) = Len(Obj(v).entries) + 1
                      /\ stored.name = n /\ stored.type = NV_TYPE_NVLIST
                      /\ heap'[stored.value].live
                      /\ DeepView(heap', stored.value) = EmptyLike(v)
                      /\ ~Valid(w)'
                      /\ flags(v)' = flags(v)
                      /\ (NamedTyped(v, n, "NvList") = {} /\ FreeHandles(heap') # {})
                            => /\ IsSome(got.ret) /\ IsSome(Unwrap(got.ret))
                               /\ DeepView(got.hp, Unwrap(Unwrap(got.ret))) = EmptyLike(v)
       ]_allvars

\* A container created with All has just had add_nvlist called with an
\* invalid value, and the child found under the name is empty with flags All.
C15_Witness ==
    \E v \in Slots :
        /\ Valid(v) /\ flags(v) = "All" /\ error(v) = 0
        /\ last.slot = v /\ last.op = "add_nvlist"
        /\ \A w \in Others(v) : ~Valid(w)
        /\ Len(Obj(v).entries) = 1
        /\ StoredView(v, KeyLower) = Some(EmptyLike(v))

C17_StringSliceRoundTrip ==
    [][\A v \in Slots, n \in Names, x \in StringSlices :
        (/\ last'.op = "add_string_slice" /\ last'.slot = v
         /\ Valid(v) /\ Insertable(v, n)
         /\ NamedTyped(v, n, "StringArray") = {}
         /\ add_string_slice(v, n, x))
            => get_string_vec(v, n)' = Some(x)
    ]_allvars

(***************************************************************************)
(* C18.  add_bool_slice(n, x) on a valid v that holds no entry of the      *)
(* name, when the insertion takes place, is followed by get_bool_slice(n)  *)
(* = Some(x), the same elements in the same order; likewise                *)
(* add_number_slice and get_number_slice; and a step that is no mutator    *)
(* call changes what get_bool_slice and get_number_slice return for no     *)
(* name.                                                                   *)
(***************************************************************************)
C18_SliceRoundTrip ==
    [][/\ \A v \in Slots, n \in Names :
            (/\ last'.slot = v /\ Valid(v) /\ error(v) = 0 /\ Named(v, n) = {})
               => /\ \A x \in BoolSlices :
                       (last'.op = "add_bool_slice" /\ add_bool_slice(v, n, x))
                          => get_bool_slice(v, n)' = Some(x)
                  /\ \A x \in NumberSlices :
                       (last'.op = "add_number_slice" /\ add_number_slice(v, n, x))
                          => get_number_slice(v, n)' = Some(x)
       /\ last'.op \notin MutatorOps
            => \A v \in Slots, n \in Names :
                  /\ get_bool_slice(v, n)' = get_bool_slice(v, n)
                  /\ get_number_slice(v, n)' = get_number_slice(v, n)
    ]_allvars

\* add_number_slice has just stored [1, 2] in a container that held an
\* entry of another name, and get_number_slice returns it.
C18_Witness ==
    \E v \in Slots :
        /\ Valid(v) /\ error(v) = 0 /\ flags(v) = "None"
        /\ last.slot = v /\ last.op = "add_number_slice"
        /\ Len(Obj(v).entries) = 2
        /\ Cardinality(Named(v, KeyLower)) = 1
        /\ get_number_slice(v, KeyLower) = Some(<<1, 2>>)
        /\ get_bool_slice(v, KeyUpper) = Some(<<TRUE, FALSE>>)

(***************************************************************************)
(* C19.  The generic add goes by the kind of its value.  add(n, Some(x))   *)
(* is add(n, x).  On a valid v, when the insertion takes place, add(n,     *)
(* None) appends a Null entry of the name, so that exists_type(n, Null) is *)
(* true and, with no entry of the name before, get_number(n) is None; a    *)
(* bool appends a Bool entry, a u64 a Number entry, a str a String entry,  *)
(* each with the value, which the getter of the type then returns when no  *)
(* entry of the name and type came before; an NvList appends a nested      *)
(* container.                                                              *)
(***************************************************************************)
C19_GenericAddByKind ==
    [][\A v \in Slots, n \in Names, value \in AddValues :
        (/\ last'.op \in AddOps /\ last'.slot = v
         /\ HeapRoom(2)
         /\ add(v, n, value))
            => LET plain == IF value.kind = "Option" /\ IsSome(value.val)
                            THEN Unwrap(value.val) ELSE value
                   stored == heap'[Ptr(v)].entries[Len(heap'[Ptr(v)].entries)]
                   StoredAs(ty) == stored.name = n /\ stored.type = NvType_as_i32(ty)
                   First(ty) == NamedTyped(v, n, ty) = {}
               IN /\ value.kind = "Option" /\ IsSome(value.val)
                       => add(v, n, Unwrap(value.val))
                  /\ (Valid(v) /\ Insertable(v, n))
                       => /\ Len(heap'[Ptr(v)].entries) = Len(Obj(v).entries) + 1
                          /\ plain.kind = "Option"
                               => /\ StoredAs("Null")
                                  /\ exists_type(v, n, "Null")'
                                  /\ Named(v, n) = {} => get_number(v, n)' = None
                          /\ plain.kind = "bool"
                               => /\ StoredAs("Bool") /\ stored.value = plain.val
                                  /\ First("Bool") => get_bool(v, n)' = Some(plain.val)
                          /\ plain.kind = "u64"
                               => /\ StoredAs("Number") /\ stored.value = plain.val
                                  /\ First("Number") => get_number(v, n)' = Some(plain.val)
                          /\ plain.kind = "str"
                               => /\ StoredAs("String") /\ stored.value = plain.val
                                  /\ First("String") => get_string(v, n)' = Some(plain.val)
                          /\ plain.kind = "NvList"
                               => /\ StoredAs("NvList")
                                  /\ heap'[stored.value].live
    ]_allvars

\* add(n, None) has just followed add of the number 42 under another name:
\* the one is there as Null and no number, the other reads back 42.
C19_Witness ==
    \E v \in Slots :
        /\ Valid(v) /\ error(v) = 0 /\ flags(v) = "None"
        /\ last.slot = v /\ last.op = "add_null"
        /\ Len(Obj(v).entries) = 2
        /\ Obj(v).entries[1].type = NvType_as_i32("Number")
        /\ get_number(v, KeyUpper) = Some(42)
        /\ exists_type(v, KeyLower, "Null")
        /\ get_number(v, KeyLower) = None

(***************************************************************************)
(* C20.  NvList::new(f) gives a container whose flags() is f, for each of  *)
(* the four flag values; no add_*, free, free_type or set_error call       *)
(* changes what flags() returns; on every valid container the from_i32     *)
(* inside flags() is Ok; and from_i32 is Ok for exactly the integers 0..3, *)
(* with the flag of that value, and Err(ConstructionErr) for every other.  *)
(***************************************************************************)
C20_FlagsFixed ==
    /\ [](\A v \in Slots :
            Valid(v) => /\ NvFlag_from_i32(nvlist_flags(Obj(v)))[1] = "Ok"
                        /\ flags(v) \in NvFlags)
    /\ [](\A i \in -4..8 :
            /\ NvFlag_from_i32(i)[1] = "Ok" <=> i \in 0..3
            /\ i \in 0..3 => \E f \in NvFlags :
                                 NvFlag_from_i32(i) = <<"Ok", f>> /\ NvFlag_as_i32(f) = i
            /\ i \notin 0..3 => NvFlag_from_i32(i) = <<"Err", "ConstructionErr">>)
    /\ [][\A v \in Slots :
            /\ \A f \in NvFlags :
                  (last'.op = "new" /\ last'.slot = v /\ HeapRoom(1) /\ new(v, f))
                     => (Valid(v)' /\ flags(v)' = f)
            /\ (last'.op \in MutatorOps /\ Valid(v))
                  => (Valid(v)' /\ flags(v)' = flags(v))
       ]_allvars

\* A container created with IgnoreCase holds an entry and has just been put
\* in error, and flags() is IgnoreCase.
C20_Witness ==
    /\ Valid("b") /\ flags("b") = "IgnoreCase"
    /\ error("b") = 22
    /\ Len(Obj("b").entries) = 1
    /\ last.slot = "b" /\ last.op = "set_error"

(***************************************************************************)
(* C21.  Every list that has been created and not destroyed has exactly    *)
(* one owner: one variable that holds it, or one place in one entry of one *)
(* live parent.  A live list with no owner can never be destroyed; one     *)
(* with two would be destroyed twice.                                      *)
(***************************************************************************)
\* The variables that hold the list h.
HeldBy(h) == { v \in Slots \cup {Temp} : vars[v] = Some(h) }

\* The places <<parent, entry, position>> where the list h is stored.
StoredIn(h) ==
    { t \in Handles \X (1..MaxEntries) \X (0..MaxHandles) :
        /\ heap[t[1]].live
        /\ t[2] <= Len(heap[t[1]].entries)
        /\ LET p == heap[t[1]].entries[t[2]]
           IN \/ /\ t[3] = 0
                 /\ p.type = NV_TYPE_NVLIST
                 /\ p.value = h
              \/ /\ t[3] > 0
                 /\ p.type = NV_TYPE_NVLIST_ARRAY
                 /\ t[3] <= Len(p.value)
                 /\ p.value[t[3]] = h }

C21_EveryHandleOwnedOnce ==
    \A h \in Handles :
        heap[h].live => Cardinality(HeldBy(h)) + Cardinality(StoredIn(h)) = 1

=============================================================================
